---- MODULE Spec2Model ----
(***************************************************************************)
(* Ordering engine of the task board: the tasks store (useTasks), the      *)
(* columns store (useColumns) and the drag handlers of KanbanBoard; and    *)
(* the pages store (usePages) with the drop handler of the sidebar's tree. *)
(*                                                                         *)
(* A hook function closes over the state of the render that created it:    *)
(* `tasks` inside moveTask and handleDragEnd is the array of that render,   *)
(* while setTasks(prev => ...) is applied to the store's current array.     *)
(* The model keeps both: the variable tasks is the store's array, and each  *)
(* running handler carries the array its closure saw (field closure).       *)
(* A handler runs without interruption up to its next await; the reply of   *)
(* the persistence layer is a separate step.  A user event is handled by    *)
(* the handlers of the latest render, so a handler's closure is the store's *)
(* array at the moment its event arrives; it is not refreshed while the     *)
(* handler is suspended.  The user is signed in throughout.                 *)
(***************************************************************************)
EXTENDS Integers, Sequences, FiniteSets, TLC

\* ---- bounds ----
MaxTasks == 4
InitTasks == 3
NumColumns == 2
MaxEvents == 2
MaxInFlight == 2
MaxPages == 4
InitPages == 3
MaxCollisions == 2
MaxFallback == 1
MaxNewColumns == 2

TaskIds == 1..MaxTasks
ColumnIds == 1..NumColumns
NewColumnIds == (NumColumns + 1)..(NumColumns + MaxNewColumns)
AllColumnIds == ColumnIds \cup NewColumnIds
PageIds == 1..MaxPages

VARIABLES
  tasks,            \* useTasks: const [tasks, setTasks] = useState<Task[]>
  db,               \* the persisted tasks table, by id
  columns,          \* useColumns: const [columns, setColumns]
  dbColumns,        \* the persisted columns table, by id
  selectedTaskIds,  \* useSelectionStore.selectedTaskIds, in insertion order
  active,           \* the draggable the pointer holds (DndContext active)
  activeTask,       \* KanbanBoard: const [activeTask, setActiveTask]
  dropIndicator,    \* KanbanBoard: const [dropIndicator, setDropIndicator]
  lastOver,         \* the region the drag in progress was last reported over
  lastDrop,         \* the branch the latest handleDragEnd took
  flights,          \* handlers suspended at an await, by slot
  toasts,           \* notifications shown so far (sonner toast)
  error,            \* useTasks: const [error, setError]
  columnsError,     \* useColumns: const [error, setError]
  calls,            \* number of persistence calls issued so far
  events,           \* number of user events started so far
  collisions,       \* the collisions the latest collision detection returned
  pages,            \* usePages: const [pages, setPages] = useState<Page[]>
  dbPages,          \* the persisted pages table, by id
  pagesError,       \* usePages: const [error, setError]
  moveLog           \* the moveTask calls made outside a drop, oldest first

vars == <<tasks, db, columns, dbColumns, selectedTaskIds, active, activeTask,
          dropIndicator, lastOver, lastDrop, flights, toasts, error, columnsError, calls, events,
          collisions, pages, dbPages, pagesError, moveLog>>

\* what the page tree's handlers never touch
boardVars == <<tasks, db, columns, dbColumns, selectedTaskIds, active, activeTask,
               dropIndicator, lastOver, lastDrop, toasts, error, columnsError,
               collisions, moveLog>>

\* what the board's drag, selection and store handlers never touch
sideVars == <<pages, dbPages, pagesError, moveLog>>

NoRow == [present |-> FALSE]
NoDrag == [type |-> "none"]
NoOver == [type |-> "none"]
NoIndicator == [shown |-> FALSE]
NoCollisions == [pointer |-> <<>>, result |-> <<>>, fallback |-> FALSE]
Idle == [kind |-> "idle"]
NoTask == 0
NoPage == 0
NoError == "null"
Failed == "message"

\* ---- array helpers (0-based indexes, as in the code) ----

Min(a, b) == IF a < b THEN a ELSE b
Max(a, b) == IF a > b THEN a ELSE b

\* Array.prototype.splice(start, 0, item)
Splice(s, start, item) ==
  LET n == Len(s)
      k == IF start < 0 THEN Max(n + start, 0) ELSE Min(start, n)
  IN SubSeq(s, 1, k) \o <<item>> \o SubSeq(s, k + 1, n)

\* Array.prototype.splice(index, 1)
RemoveAt(s, index) == SubSeq(s, 1, index) \o SubSeq(s, index + 2, Len(s))

\* Array.prototype.findIndex: -1 when absent
FindIndexById(s, id) ==
  IF \E i \in 1..Len(s) : s[i].id = id
  THEN (CHOOSE i \in 1..Len(s) : s[i].id = id /\ \A j \in 1..(i - 1) : s[j].id # id) - 1
  ELSE -1

HasId(s, id) == \E i \in 1..Len(s) : s[i].id = id

\* Array.prototype.find on an id known to be present
FindById(s, id) == s[FindIndexById(s, id) + 1]

InsertByPosition(s, x) ==
  LET k == Cardinality({i \in 1..Len(s) : s[i].position <= x.position})
  IN SubSeq(s, 1, k) \o <<x>> \o SubSeq(s, k + 1, Len(s))

\* Array.prototype.sort((a, b) => a.position - b.position): stable
RECURSIVE SortByPosition(_)
SortByPosition(s) ==
  IF Len(s) = 0 THEN <<>>
  ELSE InsertByPosition(SortByPosition(SubSeq(s, 1, Len(s) - 1)), s[Len(s)])

InColumn(ts, c) == SelectSeq(ts, LAMBDA t : t.column_id = c)

Without(ts, id) == SelectSeq(ts, LAMBDA t : t.id # id)

\* getTasksByColumn()[c] || []
TasksByColumn(ts, c) == SortByPosition(InColumn(ts, c))

Ids(s) == [i \in 1..Len(s) |-> s[i].id]

IdSet(s) == {s[i].id : i \in 1..Len(s)}

SeqContains(s, x) == \E i \in 1..Len(s) : s[i] = x

\* ---- useTasks.moveTask ----

\* an index pass that writes the moved task's row only
IndexUpdatesMovedOnly(list, taskId) ==
  LET need(i) == list[i].id = taskId
      idxs == SelectSeq([i \in 1..Len(list) |-> i], need)
  IN [k \in 1..Len(idxs) |->
        [id |-> list[idxs[k]].id, position |-> idxs[k] - 1,
         column_id |-> list[idxs[k]].column_id]]

\* the index pass of moveTask over one column's list: the moved task always,
\* a sibling only when its position differs from its index
IndexUpdates(list, taskId) ==
  LET need(i) == list[i].id = taskId \/ list[i].position # i - 1
      idxs == SelectSeq([i \in 1..Len(list) |-> i], need)
  IN [k \in 1..Len(idxs) |->
        [id |-> list[idxs[k]].id, position |-> idxs[k] - 1,
         column_id |-> list[idxs[k]].column_id]]

\* the list moveTask builds for the target column: the column's other tasks by
\* position, with the task spliced in at targetPosition
TargetColumnTasks(cl, taskId, targetColumnId, targetPosition) ==
  LET task == FindById(cl, taskId)
  IN Splice(SortByPosition(Without(InColumn(cl, targetColumnId), taskId)),
            targetPosition, [task EXCEPT !.column_id = targetColumnId])

\* the list moveTask builds for the source column of a cross-column move
SourceColumnTasks(cl, taskId) ==
  SortByPosition(Without(InColumn(cl, FindById(cl, taskId).column_id), taskId))

\* moveTask's `updates`, computed from the tasks array its closure sees
MoveTaskUpdates(cl, taskId, targetColumnId, targetPosition) ==
  LET task == FindById(cl, taskId)
      isMovingWithinColumn == task.column_id = targetColumnId
  IN IndexUpdates(TargetColumnTasks(cl, taskId, targetColumnId, targetPosition), taskId)
     \o (IF isMovingWithinColumn THEN <<>>
         ELSE IndexUpdates(SourceColumnTasks(cl, taskId), NoTask))

\* the snapshot taken after the optimistic update instead of before it
PreviousTasksAfterUpdate(cl, updates) ==
  [i \in 1..Len(cl) |->
     IF \E k \in 1..Len(updates) : updates[k].id = cl[i].id
     THEN LET u == updates[CHOOSE k \in 1..Len(updates) : updates[k].id = cl[i].id]
          IN [cl[i] EXCEPT !.position = u.position, !.column_id = u.column_id]
     ELSE cl[i]]

\* line 704: const previousTasks = [...tasks], taken before the optimistic update
PreviousTasks(cl, updates) == cl

\* the store left as it is until the reply arrives
ApplyUpdatesAfterReply(prev, updates) == prev

\* setTasks(prev => prev.map(t => updates.find(u => u.id === t.id) ...))
ApplyUpdates(prev, updates) ==
  [i \in 1..Len(prev) |->
     IF HasId(updates, prev[i].id)
     THEN [prev[i] EXCEPT !.position = FindById(updates, prev[i].id).position,
                          !.column_id = FindById(updates, prev[i].id).column_id]
     ELSE prev[i]]

\* supabase.from('tasks').upsert(upsertData, { onConflict: 'id' }), accepted
UpsertTasks(table, updates) ==
  [id \in TaskIds |->
     IF HasId(updates, id)
     THEN IF table[id].present
          THEN [table[id] EXCEPT !.position = FindById(updates, id).position,
                                 !.column_id = FindById(updates, id).column_id]
          ELSE [present |-> TRUE, column_id |-> FindById(updates, id).column_id,
                position |-> FindById(updates, id).position, is_deleted |-> FALSE]
     ELSE table[id]]

\* ---- the drag session ----

\* the record the active draggable carries: useSortable's data is a ref to the
\* latest render, so it follows the store while the task is mounted
RefreshActive(a, ts) ==
  IF a.type = "task" /\ HasId(ts, a.task.id)
  THEN [a EXCEPT !.task = FindById(ts, a.task.id)]
  ELSE a

FreeSlots == {s \in 1..MaxInFlight : flights[s].kind = "idle"}
FreeSlot == CHOOSE s \in FreeSlots : \A r \in FreeSlots : s <= r
AllIdle == \A s \in 1..MaxInFlight : flights[s].kind = "idle"

\* the droppable regions on the board: a task row, a column's sortable node
\* (id = column id) and the task-list zone inside it (id = column-drop-<id>)
RenderedTasks ==
  {tasks[i].id : i \in {j \in 1..Len(tasks) :
                          \E k \in 1..Len(columns) : columns[k].id = tasks[j].column_id}}

OverRegions ==
  {[type |-> "task", id |-> t] : t \in RenderedTasks}
  \cup {[type |-> "column", id |-> c, zone |-> z] :
          c \in IdSet(columns), z \in {"sortable", "drop"}}
  \cup {NoOver}

\* handleDragStart; the field selectionAtStart records the selection the
\* handler leaves, for the properties only: no handler reads it
DragStart(item) ==
  /\ events < MaxEvents
  /\ active = NoDrag
  /\ events' = events + 1
  /\ IF item.type = "task"
     THEN /\ selectedTaskIds' = IF SeqContains(selectedTaskIds, item.id)
                                THEN selectedTaskIds ELSE <<>>
          /\ active' = [type |-> "task", task |-> FindById(tasks, item.id),
                         selectionAtStart |-> selectedTaskIds']
          /\ activeTask' = item.id
     ELSE /\ active' = [type |-> "column", id |-> item.id]
          /\ UNCHANGED <<activeTask, selectedTaskIds>>
  /\ UNCHANGED <<tasks, db, columns, dbColumns, dropIndicator, lastOver, lastDrop, flights, toasts,
                 error, columnsError, calls>>
  /\ UNCHANGED <<collisions, sideVars>>

\* handleDragOver, lines 265-317: the indicator it sets; tasksByColumn and the
\* data of the active and the over draggable are those of the latest render
DropIndicatorFor(ts, a, over) ==
  IF over = NoOver \/ a.type # "task" THEN NoIndicator
  ELSE IF over.type = "task"
  THEN LET targetColumnId == FindById(ts, over.id).column_id
           overTaskIndex == FindIndexById(TasksByColumn(ts, targetColumnId), over.id)
           activeTaskIndex ==
             FindIndexById(TasksByColumn(ts, a.task.column_id), a.task.id)
       IN IF a.task.id = over.id THEN NoIndicator
          ELSE [shown |-> TRUE, columnId |-> targetColumnId,
                index |-> IF a.task.column_id = targetColumnId
                             /\ activeTaskIndex < overTaskIndex
                          THEN overTaskIndex + 1 ELSE overTaskIndex]
  ELSE [shown |-> TRUE, columnId |-> over.id,
        index |-> Len(TasksByColumn(ts, over.id))]

\* a drag-over that moves the hovered-over card's column live, as sortable
\* multi-container boards commonly do
DragOverMovingTask(over) ==
  /\ active # NoDrag
  /\ lastOver' = over
  /\ dropIndicator' = DropIndicatorFor(tasks, active, over)
  /\ tasks' = IF dropIndicator'.shown /\ HasId(tasks, active.task.id)
              THEN ApplyUpdates(tasks, MoveTaskUpdates(tasks, active.task.id,
                                  dropIndicator'.columnId, dropIndicator'.index))
              ELSE tasks
  /\ UNCHANGED <<db, columns, dbColumns, selectedTaskIds, active, activeTask,
                 lastDrop, flights, toasts, error, columnsError, calls, events>>
  /\ UNCHANGED <<collisions, sideVars>>

\* handleDragOver
DragOver(over) ==
  /\ active # NoDrag
  /\ lastOver' = over
  /\ dropIndicator' = DropIndicatorFor(tasks, active, over)
  /\ UNCHANGED <<tasks, db, columns, dbColumns, selectedTaskIds, active, activeTask,
                 lastDrop, flights, toasts, error, columnsError, calls, events>>
  /\ UNCHANGED <<collisions, sideVars>>

\* ---- collision detection ----

\* the lists a detection algorithm of the drag library can return: droppable
\* regions without repetition, at most n of them, in any order
RECURSIVE RegionLists(_, _)
RegionLists(regions, n) ==
  IF n = 0 THEN {<<>>}
  ELSE LET shorter == RegionLists(regions, n - 1)
       IN shorter \cup
            UNION {{Append(l, r) : r \in {x \in regions : \A i \in 1..Len(l) : l[i] # x}} :
                     l \in shorter}

\* pointerCollisions.find(collision => ... type === 'task'): index of the first
\* task row, 0 when there is none
FirstTaskCollision(list) ==
  LET hits == {i \in 1..Len(list) : list[i].type = "task"}
  IN IF hits = {} THEN 0 ELSE CHOOSE i \in hits : \A j \in hits : i <= j

\* customCollisionDetection that returns every region the pointer is within,
\* task rows and column regions alike
CustomCollisionDetectionUnfiltered(pointerCollisions, rectCollisions) ==
  IF Len(pointerCollisions) > 0
  THEN [pointer |-> pointerCollisions, result |-> pointerCollisions, fallback |-> FALSE]
  ELSE [pointer |-> pointerCollisions, result |-> rectCollisions, fallback |-> TRUE]

\* customCollisionDetection: pointerCollisions is what pointerWithin(args)
\* returns, rectCollisions what rectIntersection(args) would return; the field
\* fallback tells whether rectIntersection was called
CustomCollisionDetection(pointerCollisions, rectCollisions) ==
  IF Len(pointerCollisions) > 0
  THEN LET taskCollision == FirstTaskCollision(pointerCollisions)
       IN IF taskCollision # 0
          THEN [pointer |-> pointerCollisions,
                result |-> <<pointerCollisions[taskCollision]>>, fallback |-> FALSE]
          ELSE [pointer |-> pointerCollisions, result |-> pointerCollisions,
                fallback |-> FALSE]
  ELSE [pointer |-> pointerCollisions, result |-> rectCollisions, fallback |-> TRUE]

\* the pointer moves while it holds a draggable: DndContext runs its
\* collisionDetection, takes the first collision as `over`, and calls
\* onDragOver when `over` has changed
PointerMove(pointerCollisions, rectCollisions) ==
  /\ events < MaxEvents
  /\ active # NoDrag
  /\ events' = events + 1
  /\ collisions' = CustomCollisionDetection(pointerCollisions, rectCollisions)
  /\ LET over == IF collisions'.result = <<>> THEN NoOver ELSE collisions'.result[1]
     IN IF over = lastOver
        THEN UNCHANGED <<lastOver, dropIndicator>>
        ELSE /\ lastOver' = over
             /\ dropIndicator' = DropIndicatorFor(tasks, active, over)
  /\ UNCHANGED <<tasks, db, columns, dbColumns, selectedTaskIds, active, activeTask,
                 lastDrop, flights, toasts, error, columnsError, calls, sideVars>>

\* handleDragEnd, lines 349-370: the target column and position of a task drop
TargetColumnId(ts, over) ==
  IF over.type = "task" THEN FindById(ts, over.id).column_id ELSE over.id

TargetPosition(ts, over) ==
  IF over.type = "task"
  THEN FindIndexById(TasksByColumn(ts, FindById(ts, over.id).column_id), over.id)
  ELSE Len(TasksByColumn(ts, over.id))

\* lines 373-375
TasksToMove(sel, draggedId) ==
  IF Len(sel) > 1 /\ SeqContains(sel, draggedId) THEN sel ELSE <<draggedId>>

\* lines 381-391: does iteration k (1-based) of the loop reach moveTask?
CallsMoveTask(cl, toMove, k, targetColumnId, targetPosition) ==
  /\ HasId(cl, toMove[k])
  /\ ~ (/\ Len(toMove) = 1
        /\ FindById(cl, toMove[k]).column_id = targetColumnId
        /\ FindById(cl, toMove[k]).position = targetPosition)

\* the first iteration from k on that calls moveTask; Len + 1 when none does
RECURSIVE NextMove(_, _, _, _, _)
NextMove(cl, toMove, k, targetColumnId, targetPosition) ==
  IF k > Len(toMove) THEN k
  ELSE IF CallsMoveTask(cl, toMove, k, targetColumnId, targetPosition) THEN k
  ELSE NextMove(cl, toMove, k + 1, targetColumnId, targetPosition)

\* line 397
ShowsMoveError(successCount, toMove) == successCount = 0 /\ Len(toMove) > 0

MoveErrorToast(toMove) ==
  IF Len(toMove) > 1 THEN "Failed to move tasks" ELSE "Failed to move task"

\* the loop of lines 379-404 from iteration k on, run up to its next await:
\* either moveTask applies its optimistic update and issues the upsert, or the
\* loop is over and the handler finishes.  moveTask looks the task up in the
\* same array cl as the loop, so its own `!task` return is never taken here.
\* cur is the store's array the functional setTasks update is applied to;
\* the field before records it.
DropLoop(slot, cl, toMove, k, successCount, targetColumnId, targetPosition, cur) ==
  LET n == NextMove(cl, toMove, k, targetColumnId, targetPosition)
  IN IF n <= Len(toMove)
     THEN LET updates == MoveTaskUpdates(cl, toMove[n], targetColumnId,
                                         targetPosition + (n - 1))
          IN /\ tasks' = ApplyUpdates(cur, updates)
             /\ calls' = calls + 1
             /\ flights' = [flights EXCEPT ![slot] =
                  [kind |-> "drop", closure |-> cl, tasksToMove |-> toMove,
                   i |-> n, successCount |-> successCount,
                   targetColumnId |-> targetColumnId,
                   targetPosition |-> targetPosition,
                   previousTasks |-> PreviousTasks(cl, updates),
                   updates |-> updates, before |-> cur]]
             /\ UNCHANGED <<toasts, selectedTaskIds>>
     ELSE /\ tasks' = cur
          /\ flights' = [flights EXCEPT ![slot] = Idle]
          /\ toasts' = IF ShowsMoveError(successCount, toMove)
                       THEN Append(toasts, MoveErrorToast(toMove)) ELSE toasts
          /\ selectedTaskIds' = IF Len(toMove) > 1 THEN <<>> ELSE selectedTaskIds
          /\ UNCHANGED calls

\* ---- useColumns.reorderColumns ----

\* lines 114-117: remove the column, splice it in at newPosition, renumber
ReorderedColumns(cols, columnId, newPosition) ==
  LET currentIndex == FindIndexById(cols, columnId)
      newColumns == Splice(RemoveAt(cols, currentIndex), newPosition,
                           cols[currentIndex + 1])
  IN [i \in 1..Len(newColumns) |-> [newColumns[i] EXCEPT !.position = i - 1]]

\* line 120: const previousColumns = [...columns]
PreviousColumns(cols, reordered) == cols

\* supabase.from('columns').upsert(updates, { onConflict: 'id' }), accepted
UpsertColumns(table, updates) ==
  [id \in AllColumnIds |->
     IF HasId(updates, id)
     THEN [present |-> TRUE, position |-> FindById(updates, id).position]
     ELSE table[id]]

\* handleDragEnd, line 335: columns.findIndex((c) => c.id === over.id); the
\* inner zone's id is column-drop-<id>, which is no column's id
OverColumnIndex(cols, over) ==
  IF over.zone = "sortable" THEN FindIndexById(cols, over.id) ELSE -1

\* ---- handleDragEnd ----

\* a drop outside every region that commits the last indicator instead
DragEndCancelCommitting(over) ==
  /\ over = NoOver
  /\ IF active.type = "task" /\ dropIndicator # NoIndicator
        /\ HasId(tasks, active.task.id)
     THEN /\ DropLoop(FreeSlot, tasks, <<active.task.id>>, 1, 0,
                      dropIndicator.columnId, dropIndicator.index, tasks)
          /\ UNCHANGED <<db, columns, dbColumns>>
     ELSE UNCHANGED <<tasks, db, columns, dbColumns, selectedTaskIds, flights,
                      toasts, calls>>

DragEndCancel(over) ==
  /\ over = NoOver
  /\ UNCHANGED <<tasks, db, columns, dbColumns, selectedTaskIds, flights, toasts, calls>>

\* lines 333-341
DragEndColumn(over) ==
  /\ active.type = "column"
  /\ over.type = "column"
  /\ LET activeIndex == FindIndexById(columns, active.id)
         overIndex == OverColumnIndex(columns, over)
     IN IF activeIndex # overIndex /\ activeIndex # -1
        THEN LET reordered == ReorderedColumns(columns, active.id, overIndex)
             IN /\ columns' = reordered
                /\ calls' = calls + 1
                /\ flights' = [flights EXCEPT ![FreeSlot] =
                     [kind |-> "reorder",
                      previousColumns |-> PreviousColumns(columns, reordered),
                      updates |-> reordered, before |-> columns]]
        ELSE UNCHANGED <<columns, calls, flights>>
  /\ UNCHANGED <<tasks, db, dbColumns, selectedTaskIds, toasts>>

\* lines 344-405, up to the first await
DragEndTask(over) ==
  /\ active.type = "task"
  /\ over.type \in {"task", "column"}
  /\ DropLoop(FreeSlot, tasks, TasksToMove(selectedTaskIds, active.task.id), 1, 0,
              TargetColumnId(tasks, over), TargetPosition(tasks, over), tasks)
  /\ UNCHANGED <<db, columns, dbColumns>>

\* a column dragged onto a task row: neither branch of handleDragEnd applies
DragEndIgnored(over) ==
  /\ active.type = "column"
  /\ over.type = "task"
  /\ UNCHANGED <<tasks, db, columns, dbColumns, selectedTaskIds, flights, toasts, calls>>

\* (at most MaxInFlight handlers are suspended at a time)
DragEnd(over) ==
  /\ active # NoDrag
  /\ FreeSlots # {}
  /\ active' = NoDrag
  /\ activeTask' = NoTask
  /\ dropIndicator' = NoIndicator
  /\ lastOver' = NoOver
  /\ UNCHANGED <<events, error, columnsError>>
  /\ \/ DragEndCancel(over) /\ lastDrop' = "outside"
     \/ DragEndColumn(over) /\ lastDrop' = "column"
     \/ DragEndTask(over) /\ lastDrop' = "task"
     \/ DragEndIgnored(over) /\ lastDrop' = "ignored"
  /\ collisions' = NoCollisions
  /\ UNCHANGED sideVars

\* ---- replies of the persistence layer ----

\* moveTask after its await (lines 735-743), then the rest of the drop loop
RespondMove(slot, ok) ==
  /\ flights[slot].kind = "drop"
  /\ LET f == flights[slot]
         cur == IF ok THEN tasks ELSE f.previousTasks
     IN /\ db' = IF ok THEN UpsertTasks(db, f.updates) ELSE db
        /\ DropLoop(slot, f.closure, f.tasksToMove, f.i + 1,
                    IF ok THEN f.successCount + 1 ELSE f.successCount,
                    f.targetColumnId, f.targetPosition, cur)
  /\ error' = IF ok THEN error ELSE Failed
  /\ active' = RefreshActive(active, tasks')
  /\ UNCHANGED <<columns, dbColumns, activeTask, dropIndicator, lastOver, lastDrop, columnsError, events>>
  /\ UNCHANGED <<collisions, sideVars>>

\* reorderColumns after its await (lines 140-148)
RespondReorder(slot, ok) ==
  /\ flights[slot].kind = "reorder"
  /\ LET f == flights[slot]
     IN /\ dbColumns' = IF ok THEN UpsertColumns(dbColumns, f.updates) ELSE dbColumns
        /\ columns' = IF ok THEN columns ELSE f.previousColumns
  /\ columnsError' = IF ok THEN columnsError ELSE Failed
  /\ flights' = [flights EXCEPT ![slot] = Idle]
  /\ UNCHANGED <<tasks, db, selectedTaskIds, active, activeTask, dropIndicator, lastOver, lastDrop,
                 toasts, error, calls, events>>
  /\ UNCHANGED <<collisions, sideVars>>

\* ---- useTasks.moveTask called on its own ----

\* what moveLog records of a call: its arguments and its result
LogEntry(taskId, targetColumnId, targetPosition, result) ==
  [taskId |-> taskId, targetColumnId |-> targetColumnId,
   targetPosition |-> targetPosition, result |-> result]

\* moveTask(taskId, targetColumnId, targetPosition) up to its await, for any
\* arguments a caller may pass; the call is appended to moveLog
MoveTask(taskId, targetColumnId, targetPosition) ==
  /\ FreeSlots # {}
  /\ events' = events + 1
  /\ IF ~HasId(tasks, taskId)
     THEN /\ moveLog' = Append(moveLog,
                LogEntry(taskId, targetColumnId, targetPosition, "false"))
          /\ UNCHANGED <<tasks, calls, flights>>
     ELSE LET updates == MoveTaskUpdates(tasks, taskId, targetColumnId, targetPosition)
          IN /\ tasks' = ApplyUpdates(tasks, updates)
             /\ calls' = calls + 1
             /\ flights' = [flights EXCEPT ![FreeSlot] =
                  [kind |-> "move", taskId |-> taskId,
                   targetColumnId |-> targetColumnId, targetPosition |-> targetPosition,
                   previousTasks |-> PreviousTasks(tasks, updates),
                   updates |-> updates, before |-> tasks, log |-> Len(moveLog) + 1]]
             /\ moveLog' = Append(moveLog,
                   LogEntry(taskId, targetColumnId, targetPosition, "pending"))
  /\ active' = RefreshActive(active, tasks')
  /\ UNCHANGED <<db, columns, dbColumns, selectedTaskIds, activeTask, dropIndicator,
                 lastOver, lastDrop, toasts, error, columnsError, collisions,
                 pages, dbPages, pagesError>>

\* moveTask after its await (lines 735-743)
RespondMoveTask(slot, ok) ==
  /\ flights[slot].kind = "move"
  /\ LET f == flights[slot]
     IN /\ db' = IF ok THEN UpsertTasks(db, f.updates) ELSE db
        /\ tasks' = IF ok THEN tasks ELSE f.previousTasks
        /\ moveLog' = [moveLog EXCEPT ![f.log].result = IF ok THEN "true" ELSE "false"]
  /\ error' = IF ok THEN error ELSE Failed
  /\ flights' = [flights EXCEPT ![slot] = Idle]
  /\ active' = RefreshActive(active, tasks')
  /\ UNCHANGED <<columns, dbColumns, selectedTaskIds, activeTask, dropIndicator,
                 lastOver, lastDrop, toasts, columnsError, calls, events, collisions,
                 pages, dbPages, pagesError>>

\* the arguments tried: any task id, any column id, any index up to MaxTasks
MoveArguments == TaskIds \X ColumnIds \X (0..MaxTasks)

\* ---- useTasks.createTask, called by handleCreateTask ----

FreeIds == {id \in TaskIds : ~ db[id].present}
PendingInserts == {s \in 1..MaxInFlight : flights[s].kind = "create" /\ flights[s].phase = "insert"}

\* lines 539-547: the shift payload, from the tasks array the closure sees
ShiftUpdates(cl, columnId) ==
  LET columnTasks == InColumn(cl, columnId)
  IN [i \in 1..Len(columnTasks) |->
        [id |-> columnTasks[i].id, column_id |-> columnTasks[i].column_id,
         position |-> columnTasks[i].position + 1]]

\* lines 555-560
PrependShifted(prev, newTask) ==
  <<newTask>> \o
  [i \in 1..Len(prev) |->
     IF prev[i].column_id = newTask.column_id
     THEN [prev[i] EXCEPT !.position = prev[i].position + 1]
     ELSE prev[i]]

\* handleCreateTask(columnId), up to the insert's await
CreateTask(columnId) ==
  /\ events < MaxEvents
  /\ FreeSlots # {}
  /\ Cardinality(FreeIds) > Cardinality(PendingInserts)
  /\ events' = events + 1
  /\ calls' = calls + 1
  /\ flights' = [flights EXCEPT ![FreeSlot] =
       [kind |-> "create", phase |-> "insert", column_id |-> columnId,
        closure |-> tasks]]
  /\ UNCHANGED <<tasks, db, columns, dbColumns, selectedTaskIds, active, activeTask,
                 dropIndicator, lastOver, lastDrop, toasts, error, columnsError>>
  /\ UNCHANGED <<collisions, sideVars>>

\* the insert's reply (lines 536-552)
RespondInsert(slot, ok) ==
  /\ flights[slot].kind = "create"
  /\ flights[slot].phase = "insert"
  /\ LET f == flights[slot]
         newId == CHOOSE id \in FreeIds : \A other \in FreeIds : id <= other
         newTask == [id |-> newId, column_id |-> f.column_id, position |-> 0]
         shift == ShiftUpdates(f.closure, f.column_id)
     IN IF ~ ok
        THEN /\ toasts' = Append(toasts, "Failed to create task")
             /\ flights' = [flights EXCEPT ![slot] = Idle]
             /\ UNCHANGED <<tasks, db, calls>>
        ELSE /\ db' = [db EXCEPT ![newId] =
                        [present |-> TRUE, column_id |-> f.column_id,
                         position |-> 0, is_deleted |-> FALSE]]
             /\ toasts' = toasts
             /\ IF Len(shift) > 0
                THEN /\ calls' = calls + 1
                     /\ flights' = [flights EXCEPT ![slot] =
                          [kind |-> "create", phase |-> "shift", newTask |-> newTask,
                           updates |-> shift]]
                     /\ tasks' = tasks
                ELSE /\ tasks' = PrependShifted(tasks, newTask)
                     /\ flights' = [flights EXCEPT ![slot] = Idle]
                     /\ calls' = calls
  /\ error' = IF ok THEN error ELSE Failed
  /\ active' = RefreshActive(active, tasks')
  /\ UNCHANGED <<columns, dbColumns, selectedTaskIds, activeTask, dropIndicator, lastOver, lastDrop,
                 columnsError, events>>
  /\ UNCHANGED <<collisions, sideVars>>

\* the shift upsert's reply: its result is not inspected (lines 549-560)
RespondShift(slot, ok) ==
  /\ flights[slot].kind = "create"
  /\ flights[slot].phase = "shift"
  /\ db' = IF ok THEN UpsertTasks(db, flights[slot].updates) ELSE db
  /\ tasks' = PrependShifted(tasks, flights[slot].newTask)
  /\ flights' = [flights EXCEPT ![slot] = Idle]
  /\ active' = RefreshActive(active, tasks')
  /\ UNCHANGED <<columns, dbColumns, selectedTaskIds, activeTask, dropIndicator, lastOver, lastDrop,
                 toasts, error, columnsError, calls, events>>
  /\ UNCHANGED <<collisions, sideVars>>

\* ---- useTasks.deleteTask, called by executeDelete ----

\* executeDelete's loop from iteration k on, up to its next await
DeleteLoop(slot, taskIds, k, deletedCount) ==
  IF k <= Len(taskIds)
  THEN /\ calls' = calls + 1
       /\ flights' = [flights EXCEPT ![slot] =
            [kind |-> "delete", taskIds |-> taskIds, i |-> k,
             deletedCount |-> deletedCount]]
       /\ UNCHANGED <<toasts, selectedTaskIds>>
  ELSE /\ flights' = [flights EXCEPT ![slot] = Idle]
       /\ selectedTaskIds' = <<>>
       /\ toasts' = Append(toasts, IF deletedCount = Len(taskIds)
                                   THEN "Deleted tasks"
                                   ELSE "Failed to delete some tasks")
       /\ UNCHANGED calls

\* the id lists the context menu and the Delete key hand to executeDelete
DeleteTargets ==
  {<<t>> : t \in RenderedTasks} \cup (IF Len(selectedTaskIds) > 0 THEN {selectedTaskIds} ELSE {})

ExecuteDelete(taskIds) ==
  /\ events < MaxEvents
  /\ FreeSlots # {}
  /\ events' = events + 1
  /\ DeleteLoop(FreeSlot, taskIds, 1, 0)
  /\ UNCHANGED <<tasks, db, columns, dbColumns, active, activeTask, dropIndicator, lastOver, lastDrop,
                 error, columnsError>>
  /\ UNCHANGED <<collisions, sideVars>>

\* deleteTask after its await (lines 601-608), then the rest of executeDelete
RespondDelete(slot, ok) ==
  /\ flights[slot].kind = "delete"
  /\ LET f == flights[slot]
         id == f.taskIds[f.i]
     IN /\ db' = IF ok /\ db[id].present THEN [db EXCEPT ![id].is_deleted = TRUE] ELSE db
        /\ tasks' = IF ok THEN Without(tasks, id) ELSE tasks
        /\ DeleteLoop(slot, f.taskIds, f.i + 1,
                      IF ok THEN f.deletedCount + 1 ELSE f.deletedCount)
  /\ error' = IF ok THEN error ELSE Failed
  /\ active' = RefreshActive(active, tasks')
  /\ UNCHANGED <<columns, dbColumns, activeTask, dropIndicator, lastOver, lastDrop, columnsError, events>>
  /\ UNCHANGED <<collisions, sideVars>>

\* ---- handleDeleteColumn and useColumns.deleteColumn ----

\* handleDeleteColumn from the k-th task of columnTasks on, up to its next
\* await: deleteTask's update call, or deleteColumn's delete call once the
\* loop is over (i = Len(taskIds) + 1)
DeleteColumnLoop(slot, columnId, taskIds, k) ==
  /\ calls' = calls + 1
  /\ flights' = [flights EXCEPT ![slot] =
       [kind |-> "deleteColumn", columnId |-> columnId, taskIds |-> taskIds, i |-> k]]

\* handleDeleteColumn, lines 428-439; confirmed is the user's answer to the
\* confirm dialog, asked only when the column has tasks
HandleDeleteColumn(columnId, confirmed) ==
  /\ events < MaxEvents
  /\ FreeSlots # {}
  /\ events' = events + 1
  /\ LET columnTasks == Ids(TasksByColumn(tasks, columnId))
     IN IF Len(columnTasks) > 0 /\ ~confirmed
        THEN UNCHANGED <<calls, flights>>
        ELSE DeleteColumnLoop(FreeSlot, columnId, columnTasks, 1)
  /\ UNCHANGED <<tasks, db, columns, dbColumns, selectedTaskIds, active, activeTask,
                 dropIndicator, lastOver, lastDrop, toasts, error, columnsError,
                 collisions, sideVars>>

\* deleteTask after its await inside handleDeleteColumn's loop: the result is
\* not looked at, and the loop goes on
RespondDeleteColumnTask(slot, ok) ==
  /\ flights[slot].kind = "deleteColumn"
  /\ flights[slot].i <= Len(flights[slot].taskIds)
  /\ LET f == flights[slot]
         id == f.taskIds[f.i]
     IN /\ db' = IF ok /\ db[id].present THEN [db EXCEPT ![id].is_deleted = TRUE] ELSE db
        /\ tasks' = IF ok THEN Without(tasks, id) ELSE tasks
        /\ DeleteColumnLoop(slot, f.columnId, f.taskIds, f.i + 1)
  /\ error' = IF ok THEN error ELSE Failed
  /\ active' = RefreshActive(active, tasks')
  /\ UNCHANGED <<columns, dbColumns, selectedTaskIds, activeTask, dropIndicator,
                 lastOver, lastDrop, toasts, columnsError, events, collisions, sideVars>>

\* a deleteColumn that also renumbers the columns it leaves
FilterColumnsRenumbering(prev, id) ==
  LET rest == SelectSeq(prev, LAMBDA c : c.id # id)
  IN [i \in 1..Len(rest) |-> [rest[i] EXCEPT !.position = i - 1]]

\* setColumns((prev) => prev.filter((c) => c.id !== id))
FilterColumns(prev, id) == SelectSeq(prev, LAMBDA c : c.id # id)

\* tasks.column_id REFERENCES columns(id) ON DELETE CASCADE: the rows of the
\* column go with it; a row that is gone is kept as a deleted row, so that its
\* id is not given to a later task
CascadeTasks(table, columnId) ==
  [id \in TaskIds |->
     IF table[id].present /\ table[id].column_id = columnId
     THEN [table[id] EXCEPT !.is_deleted = TRUE] ELSE table[id]]

\* deleteColumn after its await (lines 99-104), then lines 441-445
RespondDeleteColumn(slot, ok) ==
  /\ flights[slot].kind = "deleteColumn"
  /\ flights[slot].i > Len(flights[slot].taskIds)
  /\ LET f == flights[slot]
     IN /\ dbColumns' = IF ok THEN [dbColumns EXCEPT ![f.columnId] = NoRow] ELSE dbColumns
        /\ db' = IF ok THEN CascadeTasks(db, f.columnId) ELSE db
        /\ columns' = IF ok THEN FilterColumns(columns, f.columnId) ELSE columns
  /\ columnsError' = IF ok THEN columnsError ELSE Failed
  /\ toasts' = Append(toasts, IF ok THEN "Column deleted" ELSE "Failed to delete column")
  /\ flights' = [flights EXCEPT ![slot] = Idle]
  /\ UNCHANGED <<tasks, selectedTaskIds, active, activeTask, dropIndicator,
                 lastOver, lastDrop, error, calls, events, collisions, sideVars>>

\* ---- useColumns.createColumn, called by handleAddColumn ----

\* the ids the table can give a new column: never one a task still points at
FreeColumnIds ==
  {id \in NewColumnIds :
     /\ ~ dbColumns[id].present
     /\ \A i \in 1..Len(tasks) : tasks[i].column_id # id}
PendingColumnInserts == {s \in 1..MaxInFlight : flights[s].kind = "createColumn"}

\* line 47: columns.reduce((max, c) => Math.max(max, c.position), -1), over
\* the columns cl of the render the call was made in
MaxPosition(cl) ==
  IF cl = <<>> THEN -1
  ELSE CHOOSE m \in {cl[i].position : i \in 1..Len(cl)} :
         \A i \in 1..Len(cl) : cl[i].position <= m

\* handleAddColumn: createColumn({ title: 'New Column' }) up to the insert's
\* await (lines 43-57)
HandleAddColumn ==
  /\ events < MaxEvents
  /\ FreeSlots # {}
  /\ Cardinality(FreeColumnIds) > Cardinality(PendingColumnInserts)
  /\ events' = events + 1
  /\ calls' = calls + 1
  /\ flights' = [flights EXCEPT ![FreeSlot] = [kind |-> "createColumn", position |-> MaxPosition(columns) + 1]]
  /\ UNCHANGED <<tasks, db, columns, dbColumns, selectedTaskIds, active, activeTask,
                 dropIndicator, lastOver, lastDrop, toasts, error, columnsError,
                 collisions, sideVars>>

\* the insert's reply (lines 59-66), then handleAddColumn's lines 449-451
RespondColumnInsert(slot, ok) ==
  /\ flights[slot].kind = "createColumn"
  /\ LET f == flights[slot]
         newId == CHOOSE id \in FreeColumnIds : \A other \in FreeColumnIds : id <= other
         newColumn == [id |-> newId, position |-> f.position]
     IN IF ok
        THEN /\ dbColumns' = [dbColumns EXCEPT ![newId] =
                  [present |-> TRUE, position |-> newColumn.position]]
             /\ columns' = SortByPosition(Append(columns, newColumn))
             /\ UNCHANGED <<columnsError, toasts>>
        ELSE /\ columnsError' = Failed
             /\ toasts' = Append(toasts, "Failed to create column")
             /\ UNCHANGED <<columns, dbColumns>>
  /\ flights' = [flights EXCEPT ![slot] = Idle]
  /\ UNCHANGED <<tasks, db, selectedTaskIds, active, activeTask, dropIndicator,
                 lastOver, lastDrop, error, calls, events, collisions, sideVars>>

\* ---- usePages and the page tree of the sidebar ----

\* pages.filter((p) => p.parent_id === parentId), in the array's order
ChildrenOf(ps, parentId) == SelectSeq(ps, LAMBDA p : p.parent_id = parentId)

\* buildPageTree: the top-level nodes (no parent, or a parent that is not in
\* the array), sorted by position
PageTreeRoots(ps) ==
  SortByPosition(SelectSeq(ps, LAMBDA p : p.parent_id = NoPage \/ ~ HasId(ps, p.parent_id)))

\* reorderPages, lines 182-196: `updates`, from the pages array the closure
\* sees; index i below is 1-based, the code's index is i - 1
ReorderUpdates(cl, pageId, newParentId, newPosition) ==
  LET siblings == SelectSeq(cl, LAMBDA p : p.parent_id = newParentId /\ p.id # pageId)
      newPos(i) == IF i - 1 >= newPosition THEN i ELSE i - 1
      moved == SelectSeq([i \in 1..Len(siblings) |-> i],
                         LAMBDA i : siblings[i].position # newPos(i))
  IN [k \in 1..Len(moved) |->
        [id |-> siblings[moved[k]].id, position |-> newPos(moved[k]),
         parent_id |-> newParentId]]
     \o <<[id |-> pageId, position |-> newPosition, parent_id |-> newParentId]>>

\* setPages((prev) => prev.map((p) => updates.find((u) => u.id === p.id) ...))
ApplyPageUpdates(prev, updates) ==
  [i \in 1..Len(prev) |->
     IF HasId(updates, prev[i].id)
     THEN [prev[i] EXCEPT !.position = FindById(updates, prev[i].id).position,
                          !.parent_id = FindById(updates, prev[i].id).parent_id]
     ELSE prev[i]]

\* reorderPages up to the await of its first per-row update; the fields before
\* and allOk record, for the properties only, the array the call saw and
\* whether every row's update was accepted so far
StartReorder(pageId, newParentId, newPosition) ==
  /\ calls' = calls + 1
  /\ flights' = [flights EXCEPT ![FreeSlot] =
       [kind |-> "reorderPages", pageId |-> pageId, newParentId |-> newParentId,
        newPosition |-> newPosition,
        updates |-> ReorderUpdates(pages, pageId, newParentId, newPosition),
        i |-> 1, allOk |-> TRUE, before |-> pages]]

\* reorderPages(pageId, newParentId, newPosition), for any arguments
ReorderPages(pageId, newParentId, newPosition) ==
  /\ events < MaxEvents
  /\ FreeSlots # {}
  /\ events' = events + 1
  /\ StartReorder(pageId, newParentId, newPosition)
  /\ UNCHANGED <<pages, dbPages, pagesError, boardVars>>

\* PageTree.handleDrop: the dragged page is dropped on the row of targetPageId
HandleDrop(draggedPageId, targetPageId) ==
  /\ events < MaxEvents
  /\ FreeSlots # {}
  /\ events' = events + 1
  /\ LET targetIndex == FindIndexById(PageTreeRoots(pages), targetPageId)
     IN IF draggedPageId # targetPageId /\ targetIndex # -1
        THEN StartReorder(draggedPageId, NoPage, targetIndex)
        ELSE UNCHANGED <<calls, flights>>
  /\ UNCHANGED <<pages, dbPages, pagesError, boardVars>>

\* the reply to one per-row update of reorderPages (lines 199-204): the result
\* is not looked at; after the last one the local array is updated (206-212)
RespondPageUpdate(slot, ok) ==
  /\ flights[slot].kind = "reorderPages"
  /\ LET f == flights[slot]
         u == f.updates[f.i]
     IN /\ dbPages' = IF ok /\ dbPages[u.id].present
                      THEN [dbPages EXCEPT ![u.id].position = u.position,
                                           ![u.id].parent_id = u.parent_id]
                      ELSE dbPages
        /\ IF f.i < Len(f.updates)
           THEN /\ calls' = calls + 1
                /\ flights' = [flights EXCEPT ![slot].i = f.i + 1,
                                              ![slot].allOk = f.allOk /\ ok]
                /\ pages' = pages
           ELSE /\ pages' = ApplyPageUpdates(pages, f.updates)
                /\ flights' = [flights EXCEPT ![slot] = Idle]
                /\ calls' = calls
  /\ UNCHANGED <<pagesError, events, boardVars>>

FreePageIds == {id \in PageIds : ~ dbPages[id].present}
PendingPageInserts == {s \in 1..MaxInFlight : flights[s].kind = "createPage"}

\* createPage({ parent_id }) up to the insert's await (lines 78-90): the
\* position is one more than the largest among the siblings the closure sees
CreatePage(parentId) ==
  /\ events < MaxEvents
  /\ FreeSlots # {}
  /\ Cardinality(FreePageIds) > Cardinality(PendingPageInserts)
  /\ events' = events + 1
  /\ calls' = calls + 1
  /\ LET siblingPages == ChildrenOf(pages, parentId)
         maxPosition == IF siblingPages = <<>> THEN -1
                        ELSE CHOOSE m \in {siblingPages[i].position : i \in 1..Len(siblingPages)} :
                               \A i \in 1..Len(siblingPages) : siblingPages[i].position <= m
     IN flights' = [flights EXCEPT ![FreeSlot] =
          [kind |-> "createPage", parent_id |-> parentId, position |-> maxPosition + 1]]
  /\ UNCHANGED <<pages, dbPages, pagesError, boardVars>>

\* the insert's reply (lines 92-99)
RespondPageInsert(slot, ok) ==
  /\ flights[slot].kind = "createPage"
  /\ LET f == flights[slot]
         newId == CHOOSE id \in FreePageIds : \A other \in FreePageIds : id <= other
     IN IF ok
        THEN /\ dbPages' = [dbPages EXCEPT ![newId] =
                  [present |-> TRUE, parent_id |-> f.parent_id, position |-> f.position,
                   is_deleted |-> FALSE]]
             /\ pages' = Append(pages, [id |-> newId, parent_id |-> f.parent_id,
                                        position |-> f.position])
             /\ pagesError' = pagesError
        ELSE /\ pagesError' = Failed
             /\ UNCHANGED <<pages, dbPages>>
  /\ flights' = [flights EXCEPT ![slot] = Idle]
  /\ UNCHANGED <<calls, events, boardVars>>

\* ---- usePages.deletePage, called by PageTree.executeDelete ----

\* getDescendantIds(pageId), lines 160-172, as a set: every page below pageId
\* in the array ps; fuel bounds the recursion
RECURSIVE DescendantIds(_, _, _)
DescendantIds(ps, pageId, fuel) ==
  IF fuel = 0 THEN {}
  ELSE LET children == IdSet(ChildrenOf(ps, pageId))
       IN children \cup UNION {DescendantIds(ps, c, fuel - 1) : c \in children}

\* findChildren never returns when pageId is below itself: the recursion ends
\* in a RangeError, which deletePage's catch turns into a failure
DescendantsOverflow(ps, pageId) == pageId \in DescendantIds(ps, pageId, Len(ps))

\* executeDelete(page): deletePage(page.id) up to the await of the page's own
\* soft-delete (lines 127-134); getDescendantIds reads the pages of the render
\* the call was made in
DeletePage(id) ==
  /\ events < MaxEvents
  /\ FreeSlots # {}
  /\ events' = events + 1
  /\ calls' = calls + 1
  /\ flights' = [flights EXCEPT ![FreeSlot] =
       [kind |-> "deletePage", phase |-> "page", id |-> id,
        overflow |-> DescendantsOverflow(pages, id),
        childIds |-> DescendantIds(pages, id, Len(pages))]]
  /\ UNCHANGED <<pages, dbPages, pagesError, boardVars>>

\* setPages((prev) => prev.filter((p) => p.id !== id && !childIds.includes(p.id)))
WithoutPages(prev, id, childIds) ==
  SelectSeq(prev, LAMBDA p : p.id # id /\ p.id \notin childIds)

\* the reply to the page's own soft-delete (lines 136-149), or to the
\* children's (lines 149-155, result not looked at); then executeDelete's toast
RespondPageDelete(slot, ok) ==
  /\ flights[slot].kind = "deletePage"
  /\ LET f == flights[slot]
         deleted(table, ids) ==
           [id \in PageIds |-> IF id \in ids /\ table[id].present
                               THEN [table[id] EXCEPT !.is_deleted = TRUE] ELSE table[id]]
     IN IF f.phase = "page"
        THEN /\ dbPages' = IF ok THEN deleted(dbPages, {f.id}) ELSE dbPages
             /\ IF ~ ok \/ f.overflow
                THEN /\ pagesError' = Failed
                     /\ toasts' = Append(toasts, "Failed to delete page")
                     /\ flights' = [flights EXCEPT ![slot] = Idle]
                     /\ UNCHANGED <<pages, calls>>
                ELSE IF f.childIds = {}
                THEN /\ pages' = WithoutPages(pages, f.id, f.childIds)
                     /\ toasts' = Append(toasts, "Page deleted")
                     /\ flights' = [flights EXCEPT ![slot] = Idle]
                     /\ UNCHANGED <<pagesError, calls>>
                ELSE /\ calls' = calls + 1
                     /\ flights' = [flights EXCEPT ![slot].phase = "children"]
                     /\ UNCHANGED <<pages, pagesError, toasts>>
        ELSE /\ dbPages' = IF ok THEN deleted(dbPages, f.childIds) ELSE dbPages
             /\ pages' = WithoutPages(pages, f.id, f.childIds)
             /\ toasts' = Append(toasts, "Page deleted")
             /\ flights' = [flights EXCEPT ![slot] = Idle]
             /\ UNCHANGED <<pagesError, calls>>
  /\ UNCHANGED <<tasks, db, columns, dbColumns, selectedTaskIds, active, activeTask,
                 dropIndicator, lastOver, lastDrop, error, columnsError, collisions,
                 moveLog, events>>

\* is page a the page d or one of d's ancestors?
RECURSIVE IsAncestorOrSelf(_, _, _, _)
IsAncestorOrSelf(ps, a, d, fuel) ==
  \/ a = d
  \/ /\ fuel > 0
     /\ HasId(ps, d)
     /\ FindById(ps, d).parent_id # NoPage
     /\ IsAncestorOrSelf(ps, a, FindById(ps, d).parent_id, fuel - 1)

\* the arguments tried for reorderPages: a page, a new parent that is neither
\* the page nor one of its descendants, an index up to MaxPages
ReorderArguments ==
  {a \in IdSet(pages) \X ({NoPage} \cup IdSet(pages)) \X (0..MaxPages) :
     a[2] = NoPage \/ ~ IsAncestorOrSelf(pages, a[1], a[2], MaxPages)}

\* ---- useSelectionStore ----

\* toggleTaskSelection
ToggleTaskSelection(taskId) ==
  /\ events < MaxEvents
  /\ active = NoDrag
  /\ events' = events + 1
  /\ selectedTaskIds' = IF SeqContains(selectedTaskIds, taskId)
                        THEN SelectSeq(selectedTaskIds, LAMBDA x : x # taskId)
                        ELSE Append(selectedTaskIds, taskId)
  /\ UNCHANGED <<tasks, db, columns, dbColumns, active, activeTask, dropIndicator, lastOver, lastDrop,
                 flights, toasts, error, columnsError, calls>>
  /\ UNCHANGED <<collisions, sideVars>>

\* selectMultipleTasks(tasks.map((t) => t.id)): Ctrl/Cmd + A
SelectAll ==
  /\ events < MaxEvents
  /\ events' = events + 1
  /\ selectedTaskIds' = Ids(tasks)
  /\ UNCHANGED <<tasks, db, columns, dbColumns, active, activeTask, dropIndicator, lastOver, lastDrop,
                 flights, toasts, error, columnsError, calls>>
  /\ UNCHANGED <<collisions, sideVars>>

\* the Escape key, lines 108-111: clearSelection().  The key also reaches the
\* sensor of the drag library, which is not part of this repository: the drag
\* in progress either goes on or is cancelled, and a cancelled drag calls no
\* handler, as the DndContext is given no onDragCancel.
ClearSelection(cancels) ==
  /\ events < MaxEvents
  /\ cancels => active # NoDrag
  /\ events' = events + 1
  /\ selectedTaskIds' = <<>>
  /\ active' = IF cancels THEN NoDrag ELSE active
  /\ lastOver' = IF cancels THEN NoOver ELSE lastOver
  /\ UNCHANGED <<tasks, db, columns, dbColumns, activeTask, dropIndicator, lastDrop,
                 flights, toasts, error, columnsError, calls>>
  /\ collisions' = IF cancels THEN NoCollisions ELSE collisions
  /\ UNCHANGED sideVars

\* ---- the board after its fetch ----

\* positions 0..n-1 per column, in id order
DenseBoard(col) ==
  [i \in 1..InitTasks |->
     [id |-> i, column_id |-> col[i],
      position |-> Cardinality({j \in 1..(i - 1) : col[j] = col[i]})]]

\* .order('position', { ascending: true })
Fetched(board) == SortByPosition(board)

InitColumns == [i \in 1..NumColumns |-> [id |-> i, position |-> i - 1]]

\* usePages.fetchPages: a workspace whose pages are all top-level
InitPageRows == [i \in 1..InitPages |-> [id |-> i, parent_id |-> NoPage, position |-> i - 1]]

\* the state after the fetches of useTasks, useColumns and usePages, for the
\* persisted tasks `board` (a sequence of rows with ids 1..Len(board)), with
\* the task ids sel selected
InitBoard(board, sel) ==
  /\ tasks = Fetched(board)
  /\ db = [id \in TaskIds |->
             IF id <= Len(board)
             THEN [present |-> TRUE, column_id |-> board[id].column_id,
                   position |-> board[id].position, is_deleted |-> FALSE]
             ELSE NoRow]
  /\ columns = InitColumns
  /\ dbColumns = [id \in AllColumnIds |->
                    IF id \in ColumnIds THEN [present |-> TRUE, position |-> id - 1]
                    ELSE NoRow]
  /\ selectedTaskIds = sel
  /\ active = NoDrag
  /\ activeTask = NoTask
  /\ dropIndicator = NoIndicator
  /\ lastOver = NoOver
  /\ lastDrop = "none"
  /\ flights = [s \in 1..MaxInFlight |-> Idle]
  /\ toasts = <<>>
  /\ error = NoError
  /\ columnsError = NoError
  /\ calls = 0
  /\ events = 0
  /\ collisions = NoCollisions
  /\ pages = InitPageRows
  /\ dbPages = [id \in PageIds |->
                 IF id <= InitPages
                 THEN [present |-> TRUE, parent_id |-> NoPage, position |-> id - 1,
                       is_deleted |-> FALSE]
                 ELSE NoRow]
  /\ pagesError = NoError
  /\ moveLog = <<>>

InitWith(board) == InitBoard(board, <<>>)

Init == \E col \in [1..InitTasks -> ColumnIds] : InitWith(DenseBoard(col))

Draggables ==
  {[type |-> "task", id |-> t] : t \in RenderedTasks}
  \cup {[type |-> "column", id |-> c] : c \in IdSet(columns)}

\* dragging task cards and columns, and the replies to the calls a drop issues
DragActions ==
  \/ \E item \in Draggables : DragStart(item)
  \/ \E over \in OverRegions : DragEnd(over)
  \/ \E s \in 1..MaxInFlight, ok \in BOOLEAN : RespondMove(s, ok)
  \/ \E s \in 1..MaxInFlight, ok \in BOOLEAN : RespondReorder(s, ok)

\* the pointer moving over the board while it holds a draggable
HoverActions == \E over \in OverRegions : DragOver(over)

\* the first collision detection of a drag, for any answer of the library's
\* two detection algorithms
PointerActions ==
  /\ collisions = NoCollisions
  /\ \E pointerCollisions \in RegionLists(OverRegions \ {NoOver}, MaxCollisions),
        rectCollisions \in RegionLists(OverRegions \ {NoOver}, MaxFallback) :
       PointerMove(pointerCollisions, rectCollisions)

SelectionActions ==
  \/ \E t \in RenderedTasks : ToggleTaskSelection(t)
  \/ SelectAll
  \/ \E cancels \in BOOLEAN : ClearSelection(cancels)

StoreActions ==
  \/ \E c \in IdSet(columns) : CreateTask(c)
  \/ \E ids \in DeleteTargets : ExecuteDelete(ids)
  \/ \E s \in 1..MaxInFlight, ok \in BOOLEAN : RespondInsert(s, ok)
  \/ \E s \in 1..MaxInFlight, ok \in BOOLEAN : RespondShift(s, ok)
  \/ \E s \in 1..MaxInFlight, ok \in BOOLEAN : RespondDelete(s, ok)

\* deleting a column from its header menu
ColumnActions ==
  \/ \E c \in IdSet(columns), confirmed \in BOOLEAN : HandleDeleteColumn(c, confirmed)
  \/ \E s \in 1..MaxInFlight, ok \in BOOLEAN : RespondDeleteColumnTask(s, ok)
  \/ \E s \in 1..MaxInFlight, ok \in BOOLEAN : RespondDeleteColumn(s, ok)

\* the board's Add Column button
ColumnCreateActions ==
  \/ HandleAddColumn
  \/ \E s \in 1..MaxInFlight, ok \in BOOLEAN : RespondColumnInsert(s, ok)

\* the page tree of the sidebar: pages created at the top level or under a
\* page, rows dropped on rows
PageTreeActions ==
  \/ \E parent \in {NoPage} \cup IdSet(pages) : CreatePage(parent)
  \/ \E dragged, target \in IdSet(pages) : HandleDrop(dragged, target)
  \/ \E s \in 1..MaxInFlight, ok \in BOOLEAN : RespondPageUpdate(s, ok)
  \/ \E s \in 1..MaxInFlight, ok \in BOOLEAN : RespondPageInsert(s, ok)
  \/ \E id \in IdSet(pages) : DeletePage(id)
  \/ \E s \in 1..MaxInFlight, ok \in BOOLEAN : RespondPageDelete(s, ok)

\* what the board and the sidebar do: the only caller of moveTask is
\* handleDragEnd, the only caller of reorderPages is handleDrop
Next ==
  DragActions \/ HoverActions \/ PointerActions \/ SelectionActions \/ StoreActions
  \/ ColumnActions \/ ColumnCreateActions \/ PageTreeActions

\* the whole board
Spec == Init /\ [][Next]_vars

\* single-item drags only: the selection stays empty
SpecDrag == Init /\ [][DragActions]_vars

\* drags with a selection
SpecMulti == Init /\ [][DragActions \/ SelectionActions]_vars

\* single-item drags by a user who starts a drag only when no call is pending
SequentialDragActions ==
  \/ AllIdle /\ \E item \in Draggables : DragStart(item)
  \/ \E over \in OverRegions : DragEnd(over)
  \/ \E s \in 1..MaxInFlight, ok \in BOOLEAN : RespondMove(s, ok)
  \/ \E s \in 1..MaxInFlight, ok \in BOOLEAN : RespondReorder(s, ok)

\* one fetched board per way of sharing the tasks out among the columns: a
\* single-task move reads a task's id only to find its row, so boards that
\* differ by a renaming of the tasks behave alike
InitSequential ==
  /\ Init
  /\ \A i, j \in 1..Len(tasks) :
       tasks[i].id < tasks[j].id => tasks[i].column_id <= tasks[j].column_id

SpecSequential == InitSequential /\ [][SequentialDragActions]_vars

\* task cards dragged and dropped while earlier moves are still pending
OverlapActions ==
  \/ \E t \in RenderedTasks : DragStart([type |-> "task", id |-> t])
  \/ \E over \in OverRegions : DragEnd(over)
  \/ \E s \in 1..MaxInFlight, ok \in BOOLEAN : RespondMove(s, ok)

\* the fetched board with every task in the first column; the other boards are
\* reached from it by moves
InitOneColumn ==
  /\ Init
  /\ \A i \in 1..Len(tasks) : tasks[i].column_id = 1

SpecOverlap == InitOneColumn /\ [][OverlapActions]_vars

\* one operation at a time, from the board with every task in the first column
SpecOneAtATime == InitOneColumn /\ [][SequentialDragActions]_vars

\* drags with the pointer's moves over the board, one operation at a time
SpecHover == InitOneColumn /\ [][SequentialDragActions \/ HoverActions]_vars

\* drags with the pointer's moves over the board, while earlier calls are pending
SpecDragHover == Init /\ [][DragActions \/ HoverActions]_vars

\* a drag started and the pointer's first move, from the board with every task
\* in the first column
SpecPointer ==
  InitOneColumn /\ [][(\E item \in Draggables : DragStart(item)) \/ PointerActions]_vars

\* a fetched board whose columns may have gaps in their positions, as earlier
\* deletions leave them (fetchTasks drops the deleted rows and renumbers
\* nothing); one board per way of sharing the tasks out among the columns
GappedBoard(col, pos) ==
  [i \in 1..InitTasks |-> [id |-> i, column_id |-> col[i], position |-> pos[i]]]

InitGaps ==
  \E col \in [1..InitTasks -> ColumnIds], pos \in [1..InitTasks -> 0..InitTasks] :
    /\ \A i, j \in 1..InitTasks : i < j => col[i] <= col[j]
    /\ \A i, j \in 1..InitTasks : i < j /\ col[i] = col[j] => pos[i] < pos[j]
    /\ InitWith(GappedBoard(col, pos))

\* one call of moveTask on a fetched board, and its reply
SpecMoveOnce ==
  InitGaps /\ [][\/ moveLog = <<>> /\ \E a \in MoveArguments : MoveTask(a[1], a[2], a[3])
                 \/ \E s \in 1..MaxInFlight, ok \in BOOLEAN : RespondMoveTask(s, ok)]_vars

\* the board after the user has selected every task (Ctrl+A)
InitSelected ==
  \E col \in [1..InitTasks -> ColumnIds] :
    InitBoard(DenseBoard(col), Ids(Fetched(DenseBoard(col))))

\* drags of the selection while tasks and columns are created and deleted
SpecSelected == InitSelected /\ [][DragActions \/ StoreActions \/ ColumnActions]_vars

\* tasks created and deleted one operation at a time
SequentialStoreActions ==
  \/ AllIdle /\ \E c \in IdSet(columns) : CreateTask(c)
  \/ AllIdle /\ \E ids \in DeleteTargets : ExecuteDelete(ids)
  \/ \E s \in 1..MaxInFlight, ok \in BOOLEAN : RespondInsert(s, ok)
  \/ \E s \in 1..MaxInFlight, ok \in BOOLEAN : RespondShift(s, ok)
  \/ \E s \in 1..MaxInFlight, ok \in BOOLEAN : RespondDelete(s, ok)

SpecStore == Init /\ [][SequentialStoreActions]_vars

\* deleting tasks and columns, one operation at a time
SequentialDeleteActions ==
  \/ AllIdle /\ \E ids \in DeleteTargets : ExecuteDelete(ids)
  \/ AllIdle /\ \E c \in IdSet(columns), confirmed \in BOOLEAN : HandleDeleteColumn(c, confirmed)
  \/ \E s \in 1..MaxInFlight, ok \in BOOLEAN : RespondDelete(s, ok)
  \/ \E s \in 1..MaxInFlight, ok \in BOOLEAN : RespondDeleteColumnTask(s, ok)
  \/ \E s \in 1..MaxInFlight, ok \in BOOLEAN : RespondDeleteColumn(s, ok)

SpecDelete == InitSequential /\ [][SequentialDeleteActions]_vars

SpecPageTree == Init /\ [][PageTreeActions]_vars

\* task cards dragged, created and deleted while earlier calls are pending
SpecTasks == Init /\ [][DragActions \/ StoreActions]_vars

\* columns added to the board, while earlier inserts are pending
SpecColumns == Init /\ [][ColumnCreateActions]_vars

\* reorderPages and createPage called one at a time with any arguments
PageCallActions ==
  \/ AllIdle /\ \E a \in ReorderArguments : ReorderPages(a[1], a[2], a[3])
  \/ AllIdle /\ \E parent \in {NoPage} \cup IdSet(pages) : CreatePage(parent)
  \/ \E s \in 1..MaxInFlight, ok \in BOOLEAN : RespondPageUpdate(s, ok)
  \/ \E s \in 1..MaxInFlight, ok \in BOOLEAN : RespondPageInsert(s, ok)

SpecPages == InitOneColumn /\ [][PageCallActions]_vars

\* every (page, new parent, index) reorderPages can be called with: it checks
\* none of them
AnyReorderArguments == IdSet(pages) \X ({NoPage} \cup IdSet(pages)) \X (0..MaxPages)

\* reorderPages, createPage and deletePage called one at a time, reorderPages
\* with any page and any new parent
AnyPageCallActions ==
  \/ AllIdle /\ \E a \in AnyReorderArguments : ReorderPages(a[1], a[2], a[3])
  \/ AllIdle /\ \E parent \in {NoPage} \cup IdSet(pages) : CreatePage(parent)
  \/ AllIdle /\ \E id \in IdSet(pages) : DeletePage(id)
  \/ \E s \in 1..MaxInFlight, ok \in BOOLEAN : RespondPageUpdate(s, ok)
  \/ \E s \in 1..MaxInFlight, ok \in BOOLEAN : RespondPageInsert(s, ok)
  \/ \E s \in 1..MaxInFlight, ok \in BOOLEAN : RespondPageDelete(s, ok)

SpecAnyPages == InitOneColumn /\ [][AnyPageCallActions]_vars

\* may moveTask(a[1], a[2], a[3]) be the next call of a round trip?  The first
\* call moves a task within its column A, the second moves it to another
\* column, the third repeats the first; each starts after the one before it
\* has succeeded
ContinuesRoundTrip(a) ==
  \/ /\ moveLog = <<>>
     /\ HasId(tasks, a[1])
     /\ a[2] = FindById(tasks, a[1]).column_id
  \/ /\ Len(moveLog) = 1
     /\ moveLog[1].result = "true"
     /\ a[1] = moveLog[1].taskId
     /\ a[2] # moveLog[1].targetColumnId
  \/ /\ Len(moveLog) = 2
     /\ moveLog[1].result = "true"
     /\ moveLog[2].result = "true"
     /\ a = <<moveLog[1].taskId, moveLog[1].targetColumnId, moveLog[1].targetPosition>>

\* moveTask called three times for one task: within its column, to another
\* column and back
RoundTripActions ==
  \/ AllIdle /\ \E a \in MoveArguments : ContinuesRoundTrip(a) /\ MoveTask(a[1], a[2], a[3])
  \/ \E s \in 1..MaxInFlight, ok \in BOOLEAN : RespondMoveTask(s, ok)

SpecRoundTrip == InitSequential /\ [][RoundTripActions]_vars

\* ---- properties ----

\* the positions of column c are exactly 0..n-1
Dense(ts, c) ==
  LET l == InColumn(ts, c)
  IN {l[i].position : i \in 1..Len(l)} = 0..(Len(l) - 1)

\* every task's position is its index in the column's order
PositionsAreIndexes(ts, c) ==
  LET l == TasksByColumn(ts, c)
  IN \A i \in 1..Len(l) : l[i].position = i - 1

\* a drop of a task card, and the list of tasks it moves
TaskDrop(over) == DragEnd(over) /\ active.type = "task"
Dropped == TasksToMove(selectedTaskIds, active.task.id)

\* in this step slot s issues a moveTask call
MoveIssued(s) ==
  /\ flights'[s].kind = "drop"
  /\ flights[s].kind = "drop" => flights[s].i # flights'[s].i

\* in this step the drop handler of slot s returns
DropFinished(s) == flights[s].kind = "drop" /\ flights'[s].kind = "idle"

\* nothing but the pending move of slot s has touched the tasks since it was issued
Untouched(s) == tasks = ApplyUpdates(flights[s].before, flights[s].updates)

\* moveTask calls of the drop of slot s that have returned false so far
FailedMoves(s) ==
  Cardinality({k \in 1..(flights[s].i - 1) :
                 HasId(flights[s].closure, flights[s].tasksToMove[k])})
  - flights[s].successCount

\* C1: whenever no store operation is in progress and none has been rolled back
\* or has failed, the positions of every column are exactly 0..n-1.
C1_DensePositions ==
  (AllIdle /\ error = NoError) => \A c \in ColumnIds : Dense(tasks, c)

\* C2: when the call of a single-task move or of a column reorder fails and
\* nothing else has touched the store since the move, the collection is again
\* exactly the one from before the move.
C2_RollbackRestores ==
  [][\A s \in 1..MaxInFlight :
       /\ (RespondMove(s, FALSE) /\ Len(flights[s].tasksToMove) = 1 /\ Untouched(s))
            => tasks' = flights[s].before
       /\ (RespondReorder(s, FALSE) /\ columns = flights[s].updates)
            => columns' = flights[s].before]_vars

\* a single-task move and a column reorder have both failed and been rolled back
C2_Witness ==
  /\ AllIdle
  /\ error = Failed
  /\ columnsError = Failed
  /\ calls = 2
  /\ toasts = <<"Failed to move task">>

\* the drop leaves the dragged task where it is: it is dropped on itself, or it
\* is the last task of its column and is dropped on that column
OwnPlace(over) ==
  /\ HasId(tasks, active.task.id)
  /\ \/ over = [type |-> "task", id |-> active.task.id]
     \/ /\ over.type = "column"
        /\ over.id = active.task.column_id
        /\ FindIndexById(TasksByColumn(tasks, over.id), active.task.id)
             = Len(TasksByColumn(tasks, over.id)) - 1

\* C3: a single-task drop on the place the task already occupies issues no
\* persistence call and leaves the tasks unchanged.
C3_OwnPlaceDropIsNoop ==
  [][\A over \in OverRegions :
       (TaskDrop(over) /\ Len(Dropped) = 1 /\ OwnPlace(over))
         => (calls' = calls /\ tasks' = tasks)]_vars

\* the result the claims C4 and C5 state for moveTask(taskId, target, index)
\* applied to the array before
MovedTo(before, after, taskId, target, index) ==
  LET source == FindById(before, taskId).column_id
  IN /\ FindById(after, taskId).column_id = target
     /\ Ids(TasksByColumn(after, target))
          = Splice(Ids(Without(TasksByColumn(before, target), taskId)), index, taskId)
     /\ PositionsAreIndexes(after, target)
     /\ source # target =>
          /\ Ids(TasksByColumn(after, source))
               = Ids(Without(TasksByColumn(before, source), taskId))
          /\ PositionsAreIndexes(after, source)

\* C4: moveTask(T, Y, i) of a task of another column X, with 0 <= i <= m, leaves
\* X with its other tasks in order at 0..|X|-1 and Y with T inserted at index i.
C4_CrossColumnMove ==
  [][\A s \in 1..MaxInFlight :
       MoveIssued(s) =>
         LET f == flights'[s]
             taskId == f.tasksToMove[f.i]
             index == f.targetPosition + (f.i - 1)
         IN (/\ HasId(f.before, taskId)
             /\ FindById(f.before, taskId).column_id # f.targetColumnId
             /\ index <= Len(InColumn(f.before, f.targetColumnId)))
            => MovedTo(f.before, tasks', taskId, f.targetColumnId, index)]_vars

\* C5: moveTask within a column of n tasks to index j, 0 <= j <= n-1, yields the
\* order with the task removed and re-inserted at j, positions equal to indexes.
C5_SameColumnMove ==
  [][\A s \in 1..MaxInFlight :
       MoveIssued(s) =>
         LET f == flights'[s]
             taskId == f.tasksToMove[f.i]
             index == f.targetPosition + (f.i - 1)
         IN (/\ HasId(f.before, taskId)
             /\ FindById(f.before, taskId).column_id = f.targetColumnId
             /\ index <= Len(InColumn(f.before, f.targetColumnId)) - 1)
            => MovedTo(f.before, tasks', taskId, f.targetColumnId, index)]_vars

\* the selection t1..tk sits at d, d+1, ..., d+k-1 of the target column, whose
\* positions are pairwise distinct
LandedInOrder(ts, toMove, target, d) ==
  /\ \A j \in 1..Len(toMove) :
       /\ HasId(ts, toMove[j])
       /\ FindById(ts, toMove[j]).column_id = target
       /\ FindById(ts, toMove[j]).position = d + (j - 1)
  /\ Cardinality({InColumn(ts, target)[i].position : i \in 1..Len(InColumn(ts, target))})
       = Len(InColumn(ts, target))

\* C6: after a multi-selection drop at index d whose moves all succeeded, the
\* target column holds the selection at d..d+k-1 in selection order.
C6_MultiMoveOrder ==
  [][\A s \in 1..MaxInFlight :
       (/\ RespondMove(s, TRUE)
        /\ DropFinished(s)
        /\ Len(flights[s].tasksToMove) > 1
        /\ flights[s].successCount + 1 = Len(flights[s].tasksToMove)
        /\ Untouched(s))
       => LandedInOrder(tasks', flights[s].tasksToMove, flights[s].targetColumnId,
                        flights[s].targetPosition)]_vars

\* C7: when a move of a multi-selection drop fails after earlier ones succeeded,
\* only the failed move is undone: the tasks are as they were before that move.
C7_PartialFailureKeepsSuccesses ==
  [][\A s \in 1..MaxInFlight :
       (/\ RespondMove(s, FALSE)
        /\ DropFinished(s)
        /\ Len(flights[s].tasksToMove) > 1
        /\ flights[s].successCount > 0
        /\ Untouched(s))
       => tasks' = flights[s].before]_vars

\* C8: a multi-selection drop of which at least one move failed shows a failure
\* notification.
C8_MultiFailureNotified ==
  [][\A s \in 1..MaxInFlight, ok \in BOOLEAN :
       (/\ RespondMove(s, ok)
        /\ DropFinished(s)
        /\ Len(flights[s].tasksToMove) > 1
        /\ (~ ok \/ FailedMoves(s) > 0))
       => /\ Len(toasts') = Len(toasts) + 1
          /\ toasts'[Len(toasts')] = "Failed to move tasks"]_vars

\* C9: a failed single-task move and a failed column reorder each show a
\* failure notification.
C9_FailureNotified ==
  [][\A s \in 1..MaxInFlight :
       ((RespondMove(s, FALSE) /\ Len(flights[s].tasksToMove) = 1)
        \/ RespondReorder(s, FALSE))
       => Len(toasts') = Len(toasts) + 1]_vars

\* C10: a single-task drop that is skipped because the task is already at the
\* target position shows no notification.
C10_SkipIsSilent ==
  [][\A over \in OverRegions :
       (/\ TaskDrop(over)
        /\ over # NoOver
        /\ Len(Dropped) = 1
        /\ HasId(tasks, active.task.id)
        /\ ~ CallsMoveTask(tasks, Dropped, 1, TargetColumnId(tasks, over),
                           TargetPosition(tasks, over)))
       => toasts' = toasts]_vars

\* the ids of the tasks whose position or column differs between two arrays
ChangedTasks(before, after) ==
  {id \in IdSet(before) :
     \/ ~ HasId(after, id)
     \/ FindById(before, id).position # FindById(after, id).position
     \/ FindById(before, id).column_id # FindById(after, id).column_id}

\* C11: a committed single-task move issues exactly one upsert call, and its
\* payload holds exactly the tasks whose position or column the move changes.
C11_MinimalMovePayload ==
  [][\A over \in OverRegions :
       (TaskDrop(over) /\ Len(Dropped) = 1 /\ calls' # calls)
       => /\ calls' = calls + 1
          /\ \E s \in 1..MaxInFlight :
               /\ MoveIssued(s)
               /\ IdSet(flights'[s].updates) = ChangedTasks(tasks, tasks')
               /\ Cardinality(IdSet(flights'[s].updates)) = Len(flights'[s].updates)]_vars

\* in this step slot s issues the upsert of a column reorder
ReorderIssued(s) == flights[s].kind # "reorder" /\ flights'[s].kind = "reorder"

\* the ids of the columns whose position differs between two arrays
ChangedColumns(before, after) ==
  {id \in IdSet(before) : FindById(before, id).position # FindById(after, id).position}

\* C12: the payload of a column reorder holds only the columns whose position
\* the reorder changes.
C12_MinimalReorderPayload ==
  [][\A s \in 1..MaxInFlight :
       ReorderIssued(s)
       => IdSet(flights'[s].updates) \subseteq ChangedColumns(columns, columns')]_vars

\* the store holds the order the pending move of slot s asked for
HoldsMove(s) ==
  LET f == flights[s]
  IN MovedTo(f.before, tasks, f.tasksToMove[f.i], f.targetColumnId,
             f.targetPosition + (f.i - 1))

StoreDiffersFromTable ==
  \E i \in 1..Len(tasks) :
    \/ db[tasks[i].id].position # tasks[i].position
    \/ db[tasks[i].id].column_id # tasks[i].column_id

\* C14: when the call of a move fails after a later move has changed the store,
\* the rollback puts back the array from before the failed move and so erases
\* the later move, whose own call may succeed.
C14_RollbackErasesLaterMove ==
  [][\A s \in 1..MaxInFlight :
       (/\ RespondMove(s, FALSE)
        /\ Len(flights[s].tasksToMove) = 1
        /\ ~ Untouched(s))
       => tasks' = flights[s].before]_vars

\* of two moves one failed and one was persisted, nothing is pending, and the
\* store is not what the table holds
C14_Witness ==
  /\ AllIdle
  /\ calls = 2
  /\ toasts = <<"Failed to move task">>
  /\ StoreDiffersFromTable

\* C15: a drag-over event changes the drop indicator only: the tasks, the
\* columns and both tables stay as they are and no call is issued.
C15_DragOverIsAdvisory ==
  [][\A over \in OverRegions :
       DragOver(over)
       => UNCHANGED <<tasks, columns, db, dbColumns, calls, flights>>]_vars

\* a drag is in progress and a drag-over event has set the indicator
C15_Witness ==
  /\ active # NoDrag
  /\ dropIndicator # NoIndicator
  /\ lastOver # NoOver

\* C16: a drag that ends over no region changes nothing: tasks, columns and
\* tables are unchanged, no call is issued, and the dragged item and the
\* indicator are cleared.
C16_DropOutsideChangesNothing ==
  [][DragEnd(NoOver)
     => /\ UNCHANGED <<tasks, columns, db, dbColumns, calls, flights>>
        /\ active' = NoDrag
        /\ activeTask' = NoTask
        /\ dropIndicator' = NoIndicator]_vars

\* the latest drag ended outside every region and the session is idle again
C16_Witness ==
  /\ lastDrop = "outside"
  /\ active = NoDrag
  /\ activeTask = NoTask
  /\ dropIndicator = NoIndicator

\* the ids of list with id taken out and put back before the item at index
\* (at the end when index is the length of list)
ReinsertedBefore(list, id, index) ==
  LET out(l) == SelectSeq(l, LAMBDA x : x # id)
  IN out(SubSeq(list, 1, index)) \o <<id>> \o out(SubSeq(list, index + 1, Len(list)))

\* C17: a single-task drop on the region the last drag-over event reported (a
\* task other than the dragged one, or a column) moves the task to the
\* indicator's column, into the slot the indicator marked.
C17_DropLandsAtIndicator ==
  [][\A over \in OverRegions :
       (/\ TaskDrop(over)
        /\ Len(Dropped) = 1
        /\ HasId(tasks, active.task.id)
        /\ over # NoOver
        /\ over # [type |-> "task", id |-> active.task.id]
        /\ lastOver = over)
       => /\ dropIndicator # NoIndicator
          /\ dropIndicator.index <= Len(TasksByColumn(tasks, dropIndicator.columnId))
          /\ FindById(tasks', active.task.id).column_id = dropIndicator.columnId
          /\ Ids(TasksByColumn(tasks', dropIndicator.columnId))
               = ReinsertedBefore(Ids(TasksByColumn(tasks, dropIndicator.columnId)),
                                  active.task.id, dropIndicator.index)]_vars

\* C18: a single-task drop within the task's own column is skipped only when
\* the target index is the task's index in the column; a drop on another task
\* of the column is carried out, also when the column's positions have gaps.
C18_SkipOnlyAtOwnIndex ==
  [][\A over \in OverRegions :
       (/\ TaskDrop(over)
        /\ Len(Dropped) = 1
        /\ HasId(tasks, active.task.id)
        /\ over # NoOver
        /\ TargetColumnId(tasks, over) = FindById(tasks, active.task.id).column_id)
       => /\ calls' = calls =>
               TargetPosition(tasks, over)
                 = FindIndexById(TasksByColumn(tasks, TargetColumnId(tasks, over)),
                                 active.task.id)
          /\ (over.type = "task" /\ over.id # active.task.id) => calls' = calls + 1]_vars

\* a step of one of the drag handlers: drag start, drag over, the drop, or the
\* rest of the drop handler after a reply
DragHandlerStep ==
  \/ \E item \in Draggables : DragStart(item)
  \/ \E over \in OverRegions : DragOver(over)
  \/ \E over \in OverRegions : DragEnd(over)
  \/ \E s \in 1..MaxInFlight, ok \in BOOLEAN : RespondMove(s, ok)

\* C19: no drag handler changes the selection.
C19_DragKeepsSelection ==
  [][DragHandlerStep => selectedTaskIds' = selectedTaskIds]_vars

\* C20: the tasks a drop moves are those fixed when the drag started: the
\* selection of that moment if it was a multi-selection holding the dragged
\* task, else the dragged task alone; selection changes during the drag do not
\* count.
C20_MovedSetFixedAtStart ==
  [][\A over \in OverRegions :
       (TaskDrop(over) /\ over # NoOver)
       => Dropped = TasksToMove(active.selectionAtStart, active.task.id)]_vars

\* C21: whenever the pointer is inside at least one task row, collision
\* resolution returns exactly one collision, a task row the pointer is inside,
\* whichever column regions also contain the pointer; and the fallback
\* detection is not consulted when some region contains the pointer
C21_TaskRowWins ==
  /\ (\E i \in 1..Len(collisions.pointer) : collisions.pointer[i].type = "task")
       => /\ Len(collisions.result) = 1
          /\ collisions.result[1].type = "task"
          /\ SeqContains(collisions.pointer, collisions.result[1])
  /\ collisions.pointer # <<>> => ~collisions.fallback

\* the pointer was inside a column region and, after it in the library's
\* order, a task row, and one collision was returned
C21_Witness ==
  /\ Len(collisions.pointer) > 1
  /\ collisions.pointer[1].type = "column"
  /\ \E i \in 2..Len(collisions.pointer) : collisions.pointer[i].type = "task"
  /\ Len(collisions.result) = 1
  /\ lastOver = collisions.result[1]

\* C22: a move is never committed for a task that is no longer in the tasks
\* collection: every call a drop has issued was for a task that was in the
\* store when the call was issued (a move of a missing task changes nothing
\* and issues no call)
C22_MissingTaskMoveAbandoned ==
  \A s \in 1..MaxInFlight :
    flights[s].kind = "drop"
      => HasId(flights[s].before, flights[s].tasksToMove[flights[s].i])

\* a step in which moveTask applies its update and issues its call for a drop
IssuesMove(s) == flights'[s].kind = "drop" /\ flights'[s] # flights[s]

\* C23: a task move whose target column is no longer in the columns
\* collection is abandoned: no move is applied or issued for a column that is
\* not in the collection at that moment
C23_MissingColumnMoveAbandoned ==
  [][\A s \in 1..MaxInFlight :
       IssuesMove(s) => HasId(columns, flights'[s].targetColumnId)]_vars

\* the number of tasks of column c other than taskId
OtherTasks(ts, taskId, c) == Len(Without(InColumn(ts, c), taskId))

\* a step in which moveTask, called by a drop or on its own, applies its
\* update to the store and issues its call; the arguments of that call
IssuesMoveTask(s) == flights'[s].kind \in {"drop", "move"} /\ flights'[s] # flights[s]
MovedTask(f) == IF f.kind = "drop" THEN f.tasksToMove[f.i] ELSE f.taskId
MovedToIndex(f) == IF f.kind = "drop" THEN f.targetPosition + (f.i - 1) ELSE f.targetPosition

\* C24: moveTask with a target index larger than the number of other tasks in
\* the destination column places the task last: its position is the number of
\* other tasks of that column, and the column's positions are exactly 0..n-1
C24_IndexClampedToEnd ==
  [][\A s \in 1..MaxInFlight :
       IssuesMoveTask(s) =>
         LET f == flights'[s]
             others == OtherTasks(f.before, MovedTask(f), f.targetColumnId)
         IN (HasId(f.before, MovedTask(f)) /\ MovedToIndex(f) > others)
              => /\ FindById(tasks', MovedTask(f)).column_id = f.targetColumnId
                 /\ FindById(tasks', MovedTask(f)).position = others
                 /\ Dense(tasks', f.targetColumnId)]_vars

\* C26: a successful moveTask normalizes the columns it touches: whatever gaps
\* the source and the destination column had before, once the move is applied
\* the positions of both are exactly 0..n-1
C26_MoveNormalizes ==
  [][\A s \in 1..MaxInFlight :
       (IssuesMoveTask(s) /\ HasId(flights'[s].before, MovedTask(flights'[s])))
         => /\ Dense(tasks', flights'[s].targetColumnId)
            /\ Dense(tasks', FindById(flights'[s].before, MovedTask(flights'[s])).column_id)]_vars

\* a step in which createTask puts its new task into the store
CreateDone(s) ==
  flights[s].kind = "create" /\ flights'[s] = Idle /\ Len(tasks') = Len(tasks) + 1

\* C25: after a successful createTask in column c the new task has position
\* 0, the previous tasks of c keep their relative order after it, and the
\* positions of c are exactly 0..n-1, whatever state c was in before
C25_CreateShiftIsReindex ==
  [][\A s \in 1..MaxInFlight :
       CreateDone(s) =>
         LET new == tasks'[1]
         IN /\ new.position = 0
            /\ Ids(TasksByColumn(tasks', new.column_id))
                 = <<new.id>> \o Ids(TasksByColumn(tasks, new.column_id))
            /\ Dense(tasks', new.column_id)]_vars

\* `after` is `before` without the item id: the other items are the same
\* records (same position, same group) in the same order
RemovedOnly(before, after, id) ==
  /\ ~ HasId(after, id)
  /\ IdSet(after) = IdSet(before) \ {id}
  /\ \A i \in 1..Len(after) : after[i] = FindById(before, after[i].id)
  /\ \A i, j \in 1..Len(after) :
       i < j => FindIndexById(before, after[i].id) < FindIndexById(before, after[j].id)

\* C27: a successful deleteTask or deleteColumn removes exactly that item from
\* the local collection and leaves the position and group of every remaining
\* item unchanged, in the same order; a delete whose call fails leaves the
\* local collection unchanged
C27_DeleteFrame ==
  [][\A s \in 1..MaxInFlight, ok \in BOOLEAN :
       /\ (RespondDelete(s, ok) \/ RespondDeleteColumnTask(s, ok))
            => /\ IF ok /\ HasId(tasks, flights[s].taskIds[flights[s].i])
                  THEN RemovedOnly(tasks, tasks', flights[s].taskIds[flights[s].i])
                  ELSE tasks' = tasks
               /\ columns' = columns
       /\ RespondDeleteColumn(s, ok)
            => /\ IF ok /\ HasId(columns, flights[s].columnId)
                  THEN RemovedOnly(columns, columns', flights[s].columnId)
                  ELSE columns' = columns
               /\ tasks' = tasks]_vars

\* a task and then a column have been deleted: the column the task was in
\* still has its gap, and the column that is left has kept its position
C27_Witness ==
  /\ AllIdle
  /\ Len(columns) = NumColumns - 1
  /\ \E i \in 1..Len(columns) : columns[i].position # i - 1
  /\ \E c \in ColumnIds : InColumn(tasks, c) # <<>> /\ ~ Dense(tasks, c)

\* the children of parentId by position, as the tree shows them
ChildrenByPosition(ps, parentId) == SortByPosition(ChildrenOf(ps, parentId))

\* the positions of the children of parentId are exactly 0..n-1
DensePages(ps, parentId) ==
  LET l == ChildrenOf(ps, parentId)
  IN {l[i].position : i \in 1..Len(l)} = 0..(Len(l) - 1)

\* a step in which reorderPages returns true after every per-row update was
\* accepted, the pages array not having changed since the call
ReorderSucceeds(s) ==
  /\ flights[s].kind = "reorderPages"
  /\ flights'[s] = Idle
  /\ flights[s].allOk
  /\ dbPages'[flights[s].pageId].position = flights[s].newPosition
  /\ dbPages'[flights[s].pageId].parent_id = flights[s].newParentId
  /\ flights[s].before = pages

\* C28: after a successful reorderPages that moves a page to a different
\* parent, the remaining children of the old parent and the children of the
\* new parent each have positions exactly 0..n-1
C28_BothGroupsReindexed ==
  [][\A s \in 1..MaxInFlight :
       (/\ ReorderSucceeds(s)
        /\ FindById(pages, flights[s].pageId).parent_id # flights[s].newParentId)
         => /\ DensePages(pages', FindById(pages, flights[s].pageId).parent_id)
            /\ DensePages(pages', flights[s].newParentId)]_vars

\* C29: after a successful reorderPages(p, parent, k) the children of parent
\* by position are the previous children without p, in their previous
\* position order, with p inserted at index k, and their positions are 0..n-1
C29_ReorderIsGenericMove ==
  [][\A s \in 1..MaxInFlight :
       ReorderSucceeds(s) =>
         LET f == flights[s]
             others == Ids(SortByPosition(
                         SelectSeq(pages, LAMBDA p : p.parent_id = f.newParentId
                                                     /\ p.id # f.pageId)))
             now == ChildrenByPosition(pages', f.newParentId)
         IN /\ Ids(now) = Splice(others, f.newPosition, f.pageId)
            /\ \A i \in 1..Len(now) : now[i].position = i - 1]_vars

\* the three calls of a round trip have all succeeded
RoundTripDone ==
  /\ Len(moveLog) = 3
  /\ \A k \in 1..3 : moveLog[k].result = "true"

\* C30: for a task in column A, moveTask(task, A, i), then moveTask(task, B, j)
\* with B # A, then moveTask(task, A, i), each completed successfully before
\* the next starts, leave the task in column A at index min(i, |A| - 1), and
\* the positions of A and of B contiguous from 0
C30_RoundTrip ==
  RoundTripDone =>
    LET task == moveLog[1].taskId
        A == moveLog[1].targetColumnId
        B == moveLog[2].targetColumnId
        i == moveLog[1].targetPosition
    IN /\ FindById(tasks, task).column_id = A
       /\ FindIndexById(TasksByColumn(tasks, A), task)
            = Min(i, Len(TasksByColumn(tasks, A)) - 1)
       /\ PositionsAreIndexes(tasks, A)
       /\ PositionsAreIndexes(tasks, B)
       /\ Dense(tasks, A)
       /\ Dense(tasks, B)

\* a round trip is over whose task came back behind another task of A, having
\* been put before another task of B in between
C30_Witness ==
  /\ RoundTripDone
  /\ moveLog[1].targetPosition > 0
  /\ moveLog[1].targetPosition < Len(InColumn(tasks, moveLog[1].targetColumnId))
  /\ moveLog[2].targetPosition = 0
  /\ InColumn(tasks, moveLog[2].targetColumnId) # <<>>

\* C31: a column created without an explicit position is appended: when its
\* insert has returned, its position is strictly greater than the position of
\* every other column in the local collection, also when creations overlap.
C31_CreatedColumnAppended ==
  [][\A s \in 1..MaxInFlight :
       (flights[s].kind = "createColumn" /\ flights'[s].kind = "idle"
        /\ Len(columns') > Len(columns))
       => \A i, j \in 1..Len(columns') :
            (columns'[i].id \notin IdSet(columns) /\ i # j)
            => columns'[j].position < columns'[i].position]_vars

\* C32: the parent relation of the local pages is acyclic: no page is its own
\* ancestor, whatever createPage, reorderPages and deletePage calls were made.
C32_PagesFormForest ==
  \A i \in 1..Len(pages) :
    pages[i].parent_id # NoPage
    => ~ IsAncestorOrSelf(pages, pages[i].id, pages[i].parent_id, Len(pages))

\* C33: a dragged column dropped on a region of another column c (c's sortable
\* node or the task-list zone inside c) ends at the index c had in the column
\* list, and the columns are numbered 0..n-1.
C33_ColumnDropLandsAtTarget ==
  [][\A over \in OverRegions :
       (/\ active.type = "column"
        /\ over.type = "column"
        /\ over.id # active.id
        /\ HasId(columns, active.id)
        /\ DragEnd(over))
       => /\ FindIndexById(columns', active.id) = FindIndexById(columns, over.id)
          /\ \A i \in 1..Len(columns') : columns'[i].position = i - 1]_vars

\* the table's rows that are not deleted, and the store, hold the same tasks
\* with the same column_id and position
StoreAgreesWithTable ==
  /\ ~ StoreDiffersFromTable
  /\ \A i \in 1..Len(tasks) : db[tasks[i].id].present /\ ~ db[tasks[i].id].is_deleted
  /\ \A id \in TaskIds : (db[id].present /\ ~ db[id].is_deleted) => HasId(tasks, id)

\* C34: whenever no persistence call is in flight, the local tasks and the
\* persisted tasks agree on the column_id and the position of every task that
\* is not deleted, whatever the interleaving and the outcome of the calls.
C34_IdleStoreMatchesTable == AllIdle => StoreAgreesWithTable

\* a createTask whose insert was accepted has not reached its setTasks yet
CreateCompleting == \E s \in 1..MaxInFlight : flights[s].kind = "create" /\ flights[s].phase = "shift"

\* C35: a task whose deletion succeeded is never in the local tasks again, and
\* a task whose creation has completed stays in the local tasks until it is
\* deleted, also when a move in flight at that time fails and rolls back.
C35_NoResurrectionNoLoss ==
  /\ \A i \in 1..Len(tasks) : ~ db[tasks[i].id].is_deleted
  /\ ~ CreateCompleting
     => \A id \in TaskIds : (db[id].present /\ ~ db[id].is_deleted) => HasId(tasks, id)

\* handleDeleteColumn ends with the column taken out of the local columns
ColumnDeleted(s) ==
  /\ flights[s].kind = "deleteColumn"
  /\ flights'[s].kind = "idle"
  /\ HasId(columns, flights[s].columnId)
  /\ ~ HasId(columns', flights[s].columnId)

\* C36: when handleDeleteColumn has completed with the column deleted, no task
\* of the local tasks has the deleted column as its column_id, whatever the
\* outcome of the task deletions before it.
C36_NoTaskInDeletedColumn ==
  [][\A s \in 1..MaxInFlight :
       ColumnDeleted(s)
       => \A i \in 1..Len(tasks') : tasks'[i].column_id # flights[s].columnId]_vars

\* createTask ends after a shift upsert that the table rejected
ShiftFailed(s) ==
  /\ flights[s].kind = "create"
  /\ flights[s].phase = "shift"
  /\ flights'[s].kind = "idle"
  /\ db' = db

\* C37: createTask reports success and shows the shifted positions only if the
\* insert and the shift were both persisted: when the shift fails, the failure
\* is reported and the local tasks have no position the table does not have.
C37_ShiftFailureNotShown ==
  [][\A s \in 1..MaxInFlight :
       ShiftFailed(s)
       => /\ toasts' = Append(toasts, "Failed to create task")
          /\ \A i \in 1..Len(tasks') :
               HasId(tasks, tasks'[i].id) => db'[tasks'[i].id].position = tasks'[i].position]_vars

\* reorderPages ends after a per-row update that the table rejected: an
\* earlier one, or the last one
ReorderFailed(s) ==
  /\ flights[s].kind = "reorderPages"
  /\ flights'[s].kind = "idle"
  /\ ~ flights[s].allOk \/ RespondPageUpdate(s, FALSE)

\* C38: when a per-row call of a page move fails, the failure is notified and
\* the local pages keep the positions and parents they had: local page state
\* changes only when every per-row call succeeded.
C38_FailedReorderKeepsPages ==
  [][\A s \in 1..MaxInFlight :
       ReorderFailed(s)
       => /\ pages' = pages
          /\ toasts' = Append(toasts, "Failed to reorder page")]_vars

====
